---------------------------- MODULE Spec2Model ----------------------------
(***************************************************************************)
(* A model of stamper (src/stamper.py): the overlay planner and command    *)
(* builder of process(), the sequential batch driver handle_cli(), the     *)
(* numeric field guard validate_float(), and the GUI's start() / cancel()  *)
(* / when_closed() handlers running against the start_work worker threads  *)
(* over the shared process-handle slot ff.                                 *)
(*                                                                         *)
(* Strings are sequences of one-character strings.  Each part of the       *)
(* program has its own specification (SpecEscape, SpecPath, SpecQp,        *)
(* SpecValidate, SpecCli, SpecGui); the variables of the other parts are   *)
(* held at their idle values.                                              *)
(***************************************************************************)
EXTENDS Integers, Sequences, FiniteSets, TLC

VARIABLES
    esc_in, esc_out, esc_pc,                  \* escape(value)
    filename, suffix, output, path_pc,        \* process(): output path
    quality, gpu, qp, qp_pc,                  \* process(): -qp
    vf_field, vf_text, vf_prev, vf_read,      \* validate_float() closure
    cli_files, cli_verbose, cli_ffmpeg, cli_i, cli_pc, cli_encoded, cli_exc,
    ff,                                       \* handle_gui: the shared slot
    wpc, widx, wn, wproc, wexc, werr, wseen,  \* start_work threads
    cancel_button, start_button, progress_box,
    gpc, ff_copy, gchk, closed, rejected      \* the GUI thread's handlers

escVars  == <<esc_in, esc_out, esc_pc>>
pathVars == <<filename, suffix, output, path_pc>>
qpVars   == <<quality, gpu, qp, qp_pc>>
vfVars   == <<vf_field, vf_text, vf_prev, vf_read>>
cliVars  == <<cli_files, cli_verbose, cli_ffmpeg, cli_i, cli_pc, cli_encoded, cli_exc>>
wVars    == <<wpc, widx, wn, wproc, wexc, werr, wseen>>
widgets  == <<cancel_button, start_button, progress_box>>
guiVars  == <<ff, wVars, widgets, gpc, ff_copy, gchk, closed, rejected>>
pureVars == <<escVars, pathVars, qpVars, vfVars, cliVars>>
vars     == <<escVars, pathVars, qpVars, vfVars, cliVars, guiVars>>

Min(a, b) == IF a <= b THEN a ELSE b

\* All sequences over S of length lo..hi.
SeqsOf(S, lo, hi) == UNION {[1..n -> S] : n \in lo..hi}

----------------------------------------------------------------------------
(* escape(), stamper.py:48-49                                              *)

MaxStrLen == 3

BS    == "\\"
QUOTE == "\""
COLON == ":"
EscChars == {COLON, QUOTE, BS, "a"}

\* str.replace(c, r) for a one-character pattern c.
RECURSIVE Replace(_, _, _)
Replace(s, c, r) ==
    IF s = <<>> THEN <<>>
    ELSE (IF Head(s) = c THEN r ELSE <<Head(s)>>) \o Replace(Tail(s), c, r)

\* value.replace(':', '\\:').replace('"', '\\"').replace('\\', '\\\\')
escape(value) ==
    Replace(Replace(Replace(value, COLON, <<BS, COLON>>),
                    QUOTE, <<BS, QUOTE>>),
            BS, <<BS, BS>>)

EscInit ==
    /\ esc_in \in SeqsOf(EscChars, 0, MaxStrLen)
    /\ esc_out = <<>>
    /\ esc_pc = "input"

EscIdle ==
    /\ esc_in = <<>>
    /\ esc_out = <<>>
    /\ esc_pc = "off"

\* process() applies escape to each drawtext key and value (line 112).
Escape ==
    /\ esc_pc = "input"
    /\ esc_out' = escape(esc_in)
    /\ esc_pc' = "escaped"
    /\ UNCHANGED <<esc_in, pathVars, qpVars, vfVars, cliVars, guiVars>>

NextEscape == Escape

----------------------------------------------------------------------------
(* process(): output path, stamper.py:83, and its use after -y, 108-113    *)

MaxNameLen == 4
MaxSuffixLen == 2

NameChars   == {"v", ".", "/"}
SuffixChars == {"_", "t"}

\* \w of the regular expression, over the characters of the model.
IsWord(c) == c \in {"v", "_", "t"}

\* Where r'\.(\w+)$' matches in s: the position of a '.' followed by one or
\* more word characters up to the end of the string; 0 when there is no match.
MatchStart(s) ==
    LET hits == {i \in 1..Len(s) :
                    /\ s[i] = "."
                    /\ i < Len(s)
                    /\ \A j \in (i + 1)..Len(s) : IsWord(s[j])}
    IN  IF hits = {} THEN 0 ELSE CHOOSE i \in hits : \A k \in hits : i <= k

\* re.sub(r'\.(\w+)$', fr'{suffix}.\1', filename)
OutputPath(name, suf) ==
    LET m == MatchStart(name)
    IN  IF m = 0 THEN name
        ELSE SubSeq(name, 1, m - 1) \o suf \o <<".">> \o SubSeq(name, m + 1, Len(name))

PathInit ==
    /\ filename \in SeqsOf(NameChars, 1, MaxNameLen)
    /\ suffix \in SeqsOf(SuffixChars, 0, MaxSuffixLen)
    /\ output = <<>>
    /\ path_pc = "input"

PathIdle ==
    /\ filename = <<>>
    /\ suffix = <<>>
    /\ output = <<>>
    /\ path_pc = "off"

\* process() derives the output path and returns the command
\* ['ffmpeg', '-y', ..., '-i', filename, ..., output].
BuildOutput ==
    /\ path_pc = "input"
    /\ output' = OutputPath(filename, suffix)
    /\ path_pc' = "built"
    /\ UNCHANGED <<filename, suffix, escVars, qpVars, vfVars, cliVars, guiVars>>

NextPath == BuildOutput

----------------------------------------------------------------------------
(* process(): quantization parameter, stamper.py:82 and 111                *)

QualityMin == 0
QualityMax == 100

\* x // 1.7 for an integer x >= 0: the floor of x / 1.7, with 1.7 as 17/10.
FloorDiv17(x) == (x * 10) \div 17

\* round(x / 2) and round(x / 1.7) for an integer x >= 0, halves to even as
\* Python's round() does; x / 1.7 is never a half.
RoundDiv2(x)  == IF x % 2 = 0 THEN x \div 2
                 ELSE IF ((x - 1) \div 2) % 2 = 0 THEN (x - 1) \div 2
                 ELSE (x + 1) \div 2
RoundDiv17(x) == (x * 20 + 17) \div 34

Max(a, b) == IF a >= b THEN a ELSE b

\* clamp(round((101 - quality) / (gpu ? 2.0 : 1.7)), 0, 51)
QpRounded(q, g) ==
    Max(0, Min(IF g THEN RoundDiv2(101 - q) ELSE RoundDiv17(101 - q), 51))

\* qp = min((101 - quality) // (2 if gpu else 1.7), 51)
Qp(q, g) == Min(IF g THEN (101 - q) \div 2 ELSE FloorDiv17(101 - q), 51)

QpInit ==
    /\ quality \in QualityMin..QualityMax
    /\ gpu \in BOOLEAN
    /\ qp = 0
    /\ qp_pc = "input"

QpIdle ==
    /\ quality = 0
    /\ gpu = FALSE
    /\ qp = 0
    /\ qp_pc = "off"

\* process() computes qp and passes str(qp) after '-qp'.
ComputeQp ==
    /\ qp_pc = "input"
    /\ qp' = Qp(quality, gpu)
    /\ qp_pc' = "built"
    /\ UNCHANGED <<quality, gpu, escVars, pathVars, vfVars, cliVars, guiVars>>

NextQp == ComputeQp

----------------------------------------------------------------------------
(* handle_gui.validate_float(), stamper.py:292-302, as installed on the    *)
(* numeric fields at 363-383 and read by start_work at 185                 *)

\* A textbox value: a numeric text (kind "num", its value) or any other text.
Num(n)  == [kind |-> "num", val |-> n]
NotNum  == [kind |-> "text", val |-> 0]

\* The guarded fields: the text the TextBox is created with, the initial
\* value handed to validate_float, and its min / max (max None: hasMax FALSE).
Fields == {
    [name |-> "size",    text |-> 20,  initial |-> 24,  min |-> 0, hasMax |-> TRUE,  max |-> 100],
    [name |-> "opacity", text |-> 100, initial |-> 100, min |-> 0, hasMax |-> TRUE,  max |-> 100],
    [name |-> "margin",  text |-> 10,  initial |-> 10,  min |-> 0, hasMax |-> FALSE, max |-> 0],
    [name |-> "quality", text |-> 72,  initial |-> 12,  min |-> 0, hasMax |-> TRUE,  max |-> 100]}

NoField == [name |-> "none", text |-> 0, initial |-> 0, min |-> 0, hasMax |-> FALSE, max |-> 0]

\* What the user may leave in the box after an edit.
EditNums  == {-1, 0, 1, 50, 100, 101}
EditTexts == {Num(n) : n \in EditNums} \cup {NotNum}

isfloat(t) == t.kind = "num"

\* (min is None or min <= value) and (max is None or value <= max)
InRange(f, value) == f.min <= value /\ (~f.hasMax \/ value <= f.max)

VfInit ==
    /\ vf_field \in Fields
    /\ vf_text = Num(vf_field.text)
    /\ vf_prev = vf_field.initial
    /\ vf_read = [kind |-> "unread", val |-> 0]

VfIdle ==
    /\ vf_field = NoField
    /\ vf_text = NotNum
    /\ vf_prev = 0
    /\ vf_read = [kind |-> "unread", val |-> 0]

\* The user edits the box to t and the update command f() runs.
Edit(t) ==
    /\ vf_field \in Fields
    /\ IF isfloat(t)
       THEN /\ vf_text' = t
            /\ vf_prev' = IF InRange(vf_field, t.val) THEN t.val ELSE vf_prev
       ELSE /\ vf_text' = Num(vf_prev)
            /\ vf_prev' = vf_prev
    /\ UNCHANGED <<vf_field, vf_read, escVars, pathVars, qpVars, cliVars, guiVars>>

\* start_work: float(textbox.value) (int(...) for the quality field).
ReadField ==
    /\ vf_field \in Fields
    /\ vf_read' = IF isfloat(vf_text) THEN vf_text
                  ELSE [kind |-> "ValueError", val |-> 0]
    /\ UNCHANGED <<vf_field, vf_text, vf_prev, escVars, pathVars, qpVars, cliVars, guiVars>>

NextValidate ==
    \/ \E t \in EditTexts : Edit(t)
    \/ ReadField

----------------------------------------------------------------------------
(* handle_cli(), stamper.py:115-131, over process(), 51-57                 *)

MaxCliFiles == 3

\* What probing a file gives: ffprobe exits nonzero; it succeeds and lists
\* no stream of type 'video'; it succeeds and lists one.
ProbeOutcomes == {"probe_error", "no_video", "video"}

\* process(): the try block of lines 52-57.  CalledProcessError is caught
\* and None returned; next() on an empty filter raises StopIteration, which
\* the except clause does not name.
process(outcome) ==
    CASE outcome = "probe_error" -> "None"
      [] outcome = "no_video"    -> "StopIteration"
      [] outcome = "video"       -> "cmd"

CliInit ==
    /\ cli_files \in SeqsOf(ProbeOutcomes, 1, MaxCliFiles)
    /\ cli_verbose \in BOOLEAN
    /\ cli_ffmpeg \in BOOLEAN
    /\ cli_i = 0
    /\ cli_pc = "start"
    /\ cli_encoded = {}
    /\ cli_exc = "none"

CliIdle ==
    /\ cli_files = <<>>
    /\ cli_verbose = FALSE
    /\ cli_ffmpeg = FALSE
    /\ cli_i = 0
    /\ cli_pc = "off"
    /\ cli_encoded = {}
    /\ cli_exc = "none"

\* if not ensure_ffmpeg(): exit(1)
CliEnsure ==
    /\ cli_pc = "start"
    /\ IF cli_ffmpeg
       THEN cli_pc' = "loop" /\ cli_i' = 1
       ELSE cli_pc' = "exit1" /\ cli_i' = cli_i
    /\ UNCHANGED <<cli_files, cli_verbose, cli_ffmpeg, cli_encoded, cli_exc>>
    /\ UNCHANGED <<escVars, pathVars, qpVars, vfVars, guiVars>>

\* for filename in input_files: if cmd := process(filename, **kwargs):
CliProcess ==
    /\ cli_pc = "loop"
    /\ cli_i <= Len(cli_files)
    /\ LET r == process(cli_files[cli_i])
       IN  CASE r = "None" ->
                   cli_i' = cli_i + 1 /\ cli_pc' = "loop" /\ cli_exc' = cli_exc
             [] r = "StopIteration" ->
                   cli_i' = cli_i /\ cli_pc' = "crashed" /\ cli_exc' = "StopIteration"
             [] r = "cmd" ->
                   cli_i' = cli_i /\ cli_pc' = "run" /\ cli_exc' = cli_exc
    /\ UNCHANGED <<cli_files, cli_verbose, cli_ffmpeg, cli_encoded>>
    /\ UNCHANGED <<escVars, pathVars, qpVars, vfVars, guiVars>>

\* verbose: subprocess.run(cmd), whose exit status is not looked at;
\* otherwise the FfmpegProgress run, which raises RuntimeError on failure.
CliRun(ok) ==
    /\ cli_pc = "run"
    /\ cli_encoded' = cli_encoded \cup {cli_i}
    /\ IF cli_verbose \/ ok
       THEN cli_i' = cli_i + 1 /\ cli_pc' = "loop" /\ cli_exc' = cli_exc
       ELSE cli_i' = cli_i /\ cli_pc' = "crashed" /\ cli_exc' = "RuntimeError"
    /\ UNCHANGED <<cli_files, cli_verbose, cli_ffmpeg>>
    /\ UNCHANGED <<escVars, pathVars, qpVars, vfVars, guiVars>>

\* The loop is exhausted and handle_cli returns.
CliDone ==
    /\ cli_pc = "loop"
    /\ cli_i > Len(cli_files)
    /\ cli_pc' = "done"
    /\ UNCHANGED <<cli_files, cli_verbose, cli_ffmpeg, cli_i, cli_encoded, cli_exc>>
    /\ UNCHANGED <<escVars, pathVars, qpVars, vfVars, guiVars>>

NextCli ==
    \/ CliEnsure
    \/ CliProcess
    \/ \E ok \in BOOLEAN : CliRun(ok)
    \/ CliDone

----------------------------------------------------------------------------
(* handle_gui(): start(), cancel(), when_closed() on the GUI thread and    *)
(* the start_work threads, stamper.py:139, 179-257, 317-320, 392-395       *)

MaxWorkers == 2
MaxFiles == 2

Workers == 1..MaxWorkers

\* A value of ff: None, or the FfmpegProgress object that thread w made
\* for the i-th file of its list.
NoHandle == <<0, 0>>
Handle(w, i) == <<w, i>>

Active(w) == wpc[w] # "idle"

\* How the progress loop of line 188 can end.
RunOutcomes == {"finished", "RuntimeError", "ValueError"}

GuiInit ==
    /\ ff = NoHandle
    /\ wpc = [w \in Workers |-> "idle"]
    /\ widx = [w \in Workers |-> 0]
    /\ wn = [w \in Workers |-> 0]
    /\ wproc = [w \in Workers |-> "none"]
    /\ wexc = [w \in Workers |-> "none"]
    /\ werr = [w \in Workers |-> FALSE]
    /\ wseen = [w \in Workers |-> FALSE]
    /\ cancel_button = FALSE
    /\ start_button = TRUE
    /\ progress_box = FALSE
    /\ gpc = "idle"
    /\ ff_copy = NoHandle
    /\ gchk = NoHandle
    /\ closed = FALSE
    /\ rejected = FALSE

GuiIdle ==
    /\ ff = NoHandle
    /\ wpc = <<>> /\ widx = <<>> /\ wn = <<>> /\ wproc = <<>>
    /\ wexc = <<>> /\ werr = <<>> /\ wseen = <<>>
    /\ cancel_button = FALSE
    /\ start_button = FALSE
    /\ progress_box = FALSE
    /\ gpc = "off"
    /\ ff_copy = NoHandle
    /\ gchk = NoHandle
    /\ closed = TRUE
    /\ rejected = FALSE

\* The thread of worker w is over: its locals are gone.
Ended(w) ==
    /\ wpc' = [wpc EXCEPT ![w] = "idle"]
    /\ widx' = [widx EXCEPT ![w] = 0]
    /\ wn' = [wn EXCEPT ![w] = 0]
    /\ wproc' = [wproc EXCEPT ![w] = "none"]
    /\ wexc' = [wexc EXCEPT ![w] = "none"]
    /\ werr' = [werr EXCEPT ![w] = FALSE]
    /\ wseen' = [wseen EXCEPT ![w] = FALSE]

\* The for loop of line 182 moves on from file widx[w]: to the next file,
\* or, the list exhausted, to the else clause of line 200.
NextFile(w) ==
    IF widx[w] < wn[w]
    THEN wpc' = [wpc EXCEPT ![w] = "process"] /\ widx' = [widx EXCEPT ![w] = widx[w] + 1]
    ELSE wpc' = [wpc EXCEPT ![w] = "else"] /\ widx' = widx

\* start(), lines 207-245.  valid: the suffix passes both checks; n: how
\* many of the chosen files are probable; confirm: the answer to yesno.
Start(valid, n, confirm) ==
    /\ gpc = "idle" /\ ~closed
    /\ start_button
    /\ IF ~valid \/ n = 0 \/ ~confirm
       THEN UNCHANGED <<ff, wVars, widgets, rejected>>
       ELSE /\ cancel_button' = TRUE
            /\ start_button' = FALSE
            /\ progress_box' = TRUE
            /\ IF ff # NoHandle
               THEN /\ rejected' = TRUE
                    /\ UNCHANGED wVars
               ELSE /\ \E w \in Workers :
                         /\ ~Active(w)
                         /\ \A v \in Workers : ~Active(v) => w <= v
                         /\ wpc' = [wpc EXCEPT ![w] = "process"]
                         /\ widx' = [widx EXCEPT ![w] = 1]
                         /\ wn' = [wn EXCEPT ![w] = n]
                    /\ UNCHANGED <<wproc, wexc, werr, wseen, rejected>>
            /\ UNCHANGED ff
    /\ UNCHANGED <<gpc, ff_copy, gchk, closed, pureVars>>

\* start_work, lines 183-187: process(file), and with a command the new
\* FfmpegProgress stored in ff and its process started.
WProcess(w, outcome) ==
    /\ wpc[w] = "process"
    /\ LET r == process(outcome)
       IN  CASE r = "cmd" ->
                   /\ ff' = Handle(w, widx[w])
                   /\ wpc' = [wpc EXCEPT ![w] = "running"]
                   /\ wproc' = [wproc EXCEPT ![w] = "alive"]
                   /\ wexc' = [wexc EXCEPT ![w] = "none"]
                   /\ werr' = [werr EXCEPT ![w] = FALSE]
                   /\ UNCHANGED <<widx, wn, wseen>>
             [] r = "None" ->
                   /\ NextFile(w)
                   /\ UNCHANGED <<ff, wn, wproc, wexc, werr, wseen>>
             [] r = "StopIteration" ->
                   /\ Ended(w)
                   /\ UNCHANGED ff
    /\ UNCHANGED <<widgets, gpc, ff_copy, gchk, closed, rejected, pureVars>>

\* start_work, lines 188-197: the progress loop ends, normally or with an
\* exception.  ValueError is taken to come only from a process that was
\* told to quit.
WRun(w, out) ==
    /\ wpc[w] = "running"
    /\ out = "ValueError" => wproc[w] # "alive"
    /\ wexc' = [wexc EXCEPT ![w] = IF out = "finished" THEN "none" ELSE out]
    /\ wpc' = [wpc EXCEPT ![w] = IF out = "RuntimeError" THEN "except" ELSE "finally"]
    /\ UNCHANGED <<ff, widx, wn, wproc, werr, wseen>>
    /\ UNCHANGED <<widgets, gpc, ff_copy, gchk, closed, rejected, pureVars>>

\* except RuntimeError: if ff: app.error("Error", "Failed to process ...")
WExcept(w) ==
    /\ wpc[w] = "except"
    /\ werr' = [werr EXCEPT ![w] = (ff # NoHandle)]
    /\ wpc' = [wpc EXCEPT ![w] = "finally"]
    /\ UNCHANGED <<ff, widx, wn, wproc, wexc, wseen>>
    /\ UNCHANGED <<widgets, gpc, ff_copy, gchk, closed, rejected, pureVars>>

\* finally: ff = None; then break, or the next turn of the loop.
WFinally(w) ==
    /\ wpc[w] = "finally"
    /\ ff' = NoHandle
    /\ IF wexc[w] # "none"
       THEN wpc' = [wpc EXCEPT ![w] = "buttons"] /\ widx' = widx
       ELSE NextFile(w)
    /\ UNCHANGED <<wn, wproc, wexc, werr, wseen>>
    /\ UNCHANGED <<widgets, gpc, ff_copy, gchk, closed, rejected, pureVars>>

\* else: app.info("Info", "Operation completed")
WElse(w) ==
    /\ wpc[w] = "else"
    /\ wpc' = [wpc EXCEPT ![w] = "buttons"]
    /\ UNCHANGED <<ff, widx, wn, wproc, wexc, werr, wseen>>
    /\ UNCHANGED <<widgets, gpc, ff_copy, gchk, closed, rejected, pureVars>>

\* cancel_button.disable(); start_button.enable(); progress_box.hide()
WButtons(w) ==
    /\ wpc[w] = "buttons"
    /\ cancel_button' = FALSE
    /\ start_button' = TRUE
    /\ progress_box' = FALSE
    /\ Ended(w)
    /\ UNCHANGED <<ff, gpc, ff_copy, gchk, closed, rejected, pureVars>>

\* The process behind handle h is told to quit (how: "quit_gracefully" or
\* "quit"), if it is still running.
Signal(h, how) ==
    LET w == h[1]
    IN  IF w \in Workers /\ wpc[w] = "running" /\ widx[w] = h[2] /\ wproc[w] = "alive"
        THEN wproc' = [wproc EXCEPT ![w] = how]
        ELSE wproc' = wproc

\* cancel(): if ff:   (and without a handle, the three widget calls)
CancelCheck ==
    /\ gpc = "idle" /\ ~closed
    /\ cancel_button
    /\ wseen' = [w \in Workers |-> wseen[w] \/ Active(w)]
    /\ gchk' = ff
    /\ IF ff # NoHandle
       THEN gpc' = "cancel_copy" /\ UNCHANGED widgets
       ELSE /\ gpc' = "idle"
            /\ cancel_button' = FALSE
            /\ start_button' = TRUE
            /\ progress_box' = FALSE
    /\ UNCHANGED <<ff, wpc, widx, wn, wproc, wexc, werr, ff_copy, closed, rejected, pureVars>>

\* ff_copy = ff
CancelCopy ==
    /\ gpc = "cancel_copy"
    /\ ff_copy' = ff
    /\ gpc' = "cancel_clear"
    /\ UNCHANGED <<ff, wVars, widgets, gchk, closed, rejected, pureVars>>

\* ff = None
CancelClear ==
    /\ gpc = "cancel_clear"
    /\ ff' = NoHandle
    /\ gpc' = "cancel_quit"
    /\ UNCHANGED <<wVars, widgets, ff_copy, gchk, closed, rejected, pureVars>>

\* ff_copy.quit_gracefully(); app.info(...); the three widget calls.  On
\* None the call raises and the handler ends there.
CancelQuit ==
    /\ gpc = "cancel_quit"
    /\ IF ff_copy = NoHandle
       THEN UNCHANGED <<wproc, widgets>>
       ELSE /\ Signal(ff_copy, "quit_gracefully")
            /\ cancel_button' = FALSE
            /\ start_button' = TRUE
            /\ progress_box' = FALSE
    /\ gpc' = "idle"
    /\ ff_copy' = NoHandle
    /\ gchk' = NoHandle
    /\ UNCHANGED <<ff, wpc, widx, wn, wexc, werr, wseen, closed, rejected, pureVars>>

\* when_closed(): if ff:   (and without a handle, app.destroy())
CloseCheck ==
    /\ gpc = "idle" /\ ~closed
    /\ gchk' = ff
    /\ IF ff # NoHandle
       THEN gpc' = "close_quit" /\ closed' = closed
       ELSE gpc' = "idle" /\ closed' = TRUE
    /\ UNCHANGED <<ff, wVars, widgets, ff_copy, rejected, pureVars>>

\* ff.quit(); app.destroy().  On None the call raises and the handler ends
\* there, the window still open.
CloseQuit ==
    /\ gpc = "close_quit"
    /\ IF ff = NoHandle
       THEN UNCHANGED <<wproc, closed>>
       ELSE Signal(ff, "quit") /\ closed' = TRUE
    /\ gpc' = "idle"
    /\ gchk' = NoHandle
    /\ UNCHANGED <<ff, wpc, widx, wn, wexc, werr, wseen, widgets, ff_copy, rejected, pureVars>>

NextGui ==
    \/ \E valid \in BOOLEAN, n \in 0..MaxFiles, confirm \in BOOLEAN : Start(valid, n, confirm)
    \/ \E w \in Workers, o \in ProbeOutcomes : WProcess(w, o)
    \/ \E w \in Workers, o \in RunOutcomes : WRun(w, o)
    \/ \E w \in Workers : WExcept(w)
    \/ \E w \in Workers : WFinally(w)
    \/ \E w \in Workers : WElse(w)
    \/ \E w \in Workers : WButtons(w)
    \/ CancelCheck
    \/ CancelCopy
    \/ CancelClear
    \/ CancelQuit
    \/ CloseCheck
    \/ CloseQuit

----------------------------------------------------------------------------
(* Specifications, one for each part of the program                        *)

InitEscape   == EscInit /\ PathIdle /\ QpIdle /\ VfIdle /\ CliIdle /\ GuiIdle
InitPath     == EscIdle /\ PathInit /\ QpIdle /\ VfIdle /\ CliIdle /\ GuiIdle
InitQp       == EscIdle /\ PathIdle /\ QpInit /\ VfIdle /\ CliIdle /\ GuiIdle
InitValidate == EscIdle /\ PathIdle /\ QpIdle /\ VfInit /\ CliIdle /\ GuiIdle
InitCli      == EscIdle /\ PathIdle /\ QpIdle /\ VfIdle /\ CliInit /\ GuiIdle
InitGui      == EscIdle /\ PathIdle /\ QpIdle /\ VfIdle /\ CliIdle /\ GuiInit

SpecEscape   == InitEscape /\ [][NextEscape]_vars
SpecPath     == InitPath /\ [][NextPath]_vars
SpecQp       == InitQp /\ [][NextQp]_vars
SpecValidate == InitValidate /\ [][NextValidate]_vars
SpecCli      == InitCli /\ [][NextCli]_vars
SpecGui      == InitGui /\ [][NextGui]_vars

----------------------------------------------------------------------------
(* Properties                                                              *)

ActiveWorkers == {w \in Workers : Active(w)}

\* C1: in the GUI at most one start_work worker is ever active; a start
\* request made while a worker is still active spawns no second one.
C1_SingleWorker == Cardinality(ActiveWorkers) <= 1

\* C2: the failure dialog ("Failed to process <file>") is never shown for a
\* run whose process cancel() told to quit.
C2_CancelledNotFailed ==
    \A w \in Workers : ~(wproc[w] = "quit_gracefully" /\ werr[w])

StartsEncoder(w)  == wpc[w] = "process" /\ wpc'[w] = "running"
ShowsCompleted(w) == wpc[w] = "else" /\ wpc'[w] = "buttons"

\* C3: once cancel() has been invoked while a worker is active on a list of
\* several files, that worker starts no further encoder process and never
\* shows "Operation completed".
C3_CancelStopsBatch ==
    [][\A w \in Workers :
          (wseen[w] /\ wn[w] >= 2) => ~(StartsEncoder(w) \/ ShowsCompleted(w))]_vars

\* C4: in CLI mode a file that cannot be probed or has no video stream is
\* skipped and every later file is still processed: when handle_cli is over
\* (other than by an encoder failure), every file with a video stream has
\* been handed to the encoder.
C4_BatchContinues ==
    (cli_pc \in {"done", "crashed"} /\ cli_exc # "RuntimeError")
        => \A k \in 1..Len(cli_files) : cli_files[k] = "video" => k \in cli_encoded

\* C5: with a non-empty suffix the output path of process() is never the
\* input path.
C5_OutputDiffers ==
    (path_pc = "built" /\ suffix # <<>>) => output # filename

\* The consuming parser's rule: a backslash makes the next character literal.
RECURSIVE Unescape(_)
Unescape(s) ==
    IF s = <<>> THEN <<>>
    ELSE IF Head(s) = BS
         THEN IF Len(s) >= 2 THEN <<s[2]>> \o Unescape(Tail(Tail(s))) ELSE <<>>
         ELSE <<Head(s)>> \o Unescape(Tail(s))

\* s holds a ':' or '"' that no backslash makes literal.
RECURSIVE HasBareSpecial(_)
HasBareSpecial(s) ==
    IF s = <<>> THEN FALSE
    ELSE IF Head(s) = BS
         THEN IF Len(s) >= 2 THEN HasBareSpecial(Tail(Tail(s))) ELSE FALSE
         ELSE Head(s) \in {COLON, QUOTE} \/ HasBareSpecial(Tail(s))

\* C6: unescape(escape(s)) = s for every string s, and escape(s) leaves no
\* ':' or '"' unescaped.
C6_EscapeRoundTrip ==
    esc_pc = "escaped" => (Unescape(esc_out) = esc_in /\ ~HasBareSpecial(esc_out))

\* C7 as claimed: the value after '-qp' is clamp(round((101 - quality) / d),
\* 0, 51), d being 2 with gpu and 1.7 without.
C7_QpIsRounded ==
    qp_pc = "built" => qp = QpRounded(quality, gpu)

\* C7 as amended: the value after '-qp' is min(floor((101 - quality) / d), 51),
\* d being 2 with gpu and 1.7 without: it lies in [0,51], and below 51 it is
\* the one integer n with n * d <= 101 - quality < (n + 1) * d; it is 51
\* exactly when 51 * d <= 101 - quality.
C7_QpIsFloor ==
    qp_pc = "built" =>
        LET x   == 101 - quality
            num == IF gpu THEN x ELSE 10 * x
            den == IF gpu THEN 1 ELSE 17
            d2  == IF gpu THEN 2 ELSE 1
        IN  /\ qp \in 0..51
            /\ qp < 51 => (qp * d2 * den <= num /\ num < (qp + 1) * d2 * den)
            /\ qp = 51 => 51 * d2 * den <= num

\* C7 witness: quality 98 with gpu, where 3 / 2 is floored to 1 (rounded: 2).
C7_Witness ==
    qp_pc = "built" /\ gpu /\ quality = 98 /\ qp = 1

\* C8: a field guarded by validate_float always shows a numeric value within
\* [min, max], so what start_work reads from it is numeric and within
\* [min, max].
C8_FieldAlwaysValid ==
    vf_field \in Fields =>
        /\ isfloat(vf_text) /\ InRange(vf_field, vf_text.val)
        /\ vf_read.kind # "unread"
              => (vf_read.kind = "num" /\ InRange(vf_field, vf_read.val))

\* The encoder of w's current file failed by itself, uncancelled:
\* RuntimeError from a process that nobody told to quit, in a worker during
\* whose life cancel() was never invoked.
Failed(w) == wexc[w] = "RuntimeError" /\ wproc[w] = "alive" /\ ~wseen[w]

\* C9: when the encoder of a file fails and the user has not cancelled, the
\* worker shows the error dialog for that file, goes on to no later file and
\* not to "Operation completed", and ends with ff cleared, Cancel disabled
\* and Start enabled.
C9_FailureStopsBatch ==
    [][\A w \in Workers :
          Failed(w) =>
              /\ wpc[w] \in {"finally", "buttons"} => werr[w]
              /\ wpc'[w] \notin {"process", "running", "else"}
              /\ (wpc[w] = "buttons" /\ wpc'[w] = "idle")
                    => (ff' = NoHandle /\ ~cancel_button' /\ start_button')]_vars

\* C10: the handle on which cancel() calls quit_gracefully(), and the one on
\* which when_closed() calls quit(), is the handle that was in ff when the
\* handler tested ff: never None, never the handle of another file.
C10_SignalsCheckedHandle ==
    [][/\ (gpc = "cancel_quit" /\ gpc' = "idle") => ff_copy = gchk
       /\ (gpc = "close_quit" /\ gpc' = "idle") => ff = gchk]_vars

=============================================================================
